---- MODULE Spec2Model ----
(***************************************************************************)
(* Kyvern Shield circuit breaker (programs/circuit-breaker/src/lib.rs).    *)
(*                                                                         *)
(* One Shield account (the PDA derived from one agent wallet) and the six  *)
(* instructions of the program.  Every instruction is one atomic action:   *)
(* the Anchor account constraints of its context, then the handler body.   *)
(* A handler that panics (checked arithmetic overflow) aborts the whole    *)
(* instruction, so the account keeps the bytes it had before the call.     *)
(*                                                                         *)
(* Integer widths.  anomaly_count and anomaly_threshold are u8 and the     *)
(* timestamps are i64; both are modelled with their wrap-around at a       *)
(* scaled-down width (U8Max, I64Max).  The u64 counters are incremented by *)
(* one per call and cannot reach 2^64 in any run; they are capped by a     *)
(* guard (MaxTx) rather than wrapped.  Whether an overflowing `+` panics   *)
(* or wraps depends on the build profile (overflow-checks), which is not   *)
(* fixed by the source: overflow_checks is chosen once, at Init.           *)
(***************************************************************************)
EXTENDS Integers, Sequences, FiniteSets, TLC

VARIABLES
    overflow_checks,  \* build profile: TRUE = `+` panics on overflow, FALSE = wraps
    shield,           \* the Shield account, or NoShield when the PDA holds no account
    call              \* the last instruction: its inputs, the verdict and what it returned

vars == <<overflow_checks, shield, call>>

----------------------------------------------------------------------------
(* Bounds *)

U8Max == 2          \* stands for u8::MAX
I64Max == 2         \* stands for i64::MAX; i64::MIN is -(I64Max + 1)
MaxTx == 3          \* cap on the u64 counters
MaxTime == 1        \* timestamps the clock can report are 0..MaxTime
MaxValue == 2       \* transaction values are 1..MaxValue
EvalMax == 3        \* u64 amounts drawn for the policy evaluator are 0..EvalMax

----------------------------------------------------------------------------
(* Types *)

NoShield == [exists |-> FALSE]       \* the PDA holds no account
NoTx == [program_id |-> "none", value |-> 0]
NoConfig == [none |-> TRUE]

Keys == {"k1", "k2"}
Authorities == {"k1"}    \* the keys that create a shield; the program treats all keys alike
Recorders == {"k2"}      \* the keys that record; the handler never reads the recorder
Programs == {"p1", "p2", "p3"}
Times == 0..MaxTime
Values == 1..MaxValue

CircuitState == {"Closed", "Open", "HalfOpen"}
TransactionResult == {"Allowed", "Flagged", "Blocked"}
ValidationResult == {"Allowed", "Anomaly", "Blocked"}

TransactionRecord == [program_id : Programs, value : Values]

ConfigA ==
    [max_transaction_value |-> 2, daily_spend_limit |-> 3, approval_threshold |-> 1,
     anomaly_threshold |-> 2, time_window_seconds |-> 1, cooldown_seconds |-> 1,
     allowed_programs |-> <<>>, blocked_programs |-> <<"p1">>]

ConfigB ==
    [max_transaction_value |-> 1, daily_spend_limit |-> 0, approval_threshold |-> 2,
     anomaly_threshold |-> 0, time_window_seconds |-> 0, cooldown_seconds |-> 0,
     allowed_programs |-> <<"p1", "p2">>, blocked_programs |-> <<"p1", "p3">>]

ConfigC ==
    [max_transaction_value |-> 0, daily_spend_limit |-> 1, approval_threshold |-> 0,
     anomaly_threshold |-> U8Max, time_window_seconds |-> 2, cooldown_seconds |-> I64Max,
     allowed_programs |-> <<"p3">>, blocked_programs |-> <<>>]

ShieldConfig == {ConfigA, ConfigB, ConfigC}

ShieldBump == 255
AgentWallet == "w1"

\* configurations and transactions for the policy evaluator on its own
ProgramLists == {<<>>, <<"p1">>, <<"p2">>, <<"p1", "p2">>}

EvalConfig ==
    [max_transaction_value : 0..EvalMax, daily_spend_limit : {0},
     approval_threshold : 0..EvalMax, anomaly_threshold : {1},
     time_window_seconds : {0}, cooldown_seconds : {1},
     allowed_programs : ProgramLists, blocked_programs : ProgramLists]

EvalTransaction == [program_id : Programs, value : 0..EvalMax]

NoCall ==
    [op |-> "none", signer |-> "none", now |-> 0, tx |-> NoTx, config |-> NoConfig,
     verdict |-> "None", result |-> "None"]

----------------------------------------------------------------------------
(* Arithmetic of the build *)

\* an i64 sum as a wrapping build leaves it: two's complement
WrapI64(x) == ((x + I64Max + 1) % (2 * (I64Max + 1))) - (I64Max + 1)

\* a u8 sum as a wrapping build leaves it
WrapU8(x) == x % (U8Max + 1)

\* a membership test that stops after the first element
contains_first_only(vec, x) == Len(vec) > 0 /\ vec[1] = x

\* Vec::contains
contains(vec, x) == \E i \in 1..Len(vec) : vec[i] = x

\* Vec::is_empty
is_empty(vec) == Len(vec) = 0

\* what a handler hands back: the account it leaves, its return value and the
\* verdict of the policy when it got that far
Done(s, r, v) == [shield |-> s, result |-> r, verdict |-> v]

\* a panic: the instruction fails and the runtime discards its writes, so the
\* account is the one the instruction started with
Abort(s0, v) == [shield |-> s0, result |-> "Err", verdict |-> v]

----------------------------------------------------------------------------
(* Validation logic *)

\* the allowlist consulted before the blocklist
validate_transaction_allowlist_first(s, tx) ==
    LET config == s.config IN
    IF ~is_empty(config.allowed_programs)
       /\ ~contains(config.allowed_programs, tx.program_id) THEN "Anomaly"
    ELSE IF contains(config.blocked_programs, tx.program_id) THEN "Blocked"
    ELSE IF tx.value > config.max_transaction_value THEN "Anomaly"
    ELSE IF tx.value > config.approval_threshold THEN "Anomaly"
    ELSE "Allowed"

validate_transaction(s, tx) ==
    LET config == s.config IN
    IF contains(config.blocked_programs, tx.program_id) THEN "Blocked"
    ELSE IF ~is_empty(config.allowed_programs)
            /\ ~contains(config.allowed_programs, tx.program_id) THEN "Anomaly"
    ELSE IF tx.value > config.max_transaction_value THEN "Anomaly"
    ELSE IF tx.value > config.approval_threshold THEN "Anomaly"
    ELSE "Allowed"

----------------------------------------------------------------------------
(* record_transaction, piece by piece *)

\* lib.rs:71-72, the circuit is open and the cooldown has not ended
open_in_cooldown(s, now) == s.state = "Open" /\ now < s.cooldown_ends_at

\* a rejected call counted as a processed transaction too
reject_open_counted(s) ==
    [s EXCEPT !.blocked_transactions = @ + 1, !.total_transactions = @ + 1]

\* lib.rs:73, a call rejected by the open circuit
reject_open(s) == [s EXCEPT !.blocked_transactions = @ + 1]

\* an expired cooldown that is not noticed
expire_cooldown_never(s) == s

\* lib.rs:80-83, cooldown expired: move to half-open
expire_cooldown(s) == IF s.state = "Open" THEN [s EXCEPT !.state = "HalfOpen"] ELSE s

\* the increment of total_transactions left out
count_transaction_forgotten(s) == s

\* lib.rs:89
count_transaction(s) == [s EXCEPT !.total_transactions = @ + 1]

\* lib.rs:92-97
apply_allowed(s) ==
    IF s.state = "HalfOpen"
    THEN [s EXCEPT !.state = "Closed", !.anomaly_count = 0]
    ELSE s

\* a trip that writes the clock into created_at as well
open_circuit_stamps_created(s, now) ==
    [s EXCEPT !.state = "Open",
              !.last_triggered_at = now,
              !.created_at = now,
              !.cooldown_ends_at = WrapI64(now + s.config.cooldown_seconds)]

\* lib.rs:109-111 and lib.rs:149-151, the circuit opens at `now`
\* (the caller has checked that now + cooldown_seconds is in range, or the build wraps)
open_circuit(s, now) ==
    [s EXCEPT !.state = "Open",
              !.last_triggered_at = now,
              !.cooldown_ends_at = WrapI64(now + s.config.cooldown_seconds)]

\* now + cooldown_seconds leaves i64
cooldown_overflows(s, now) ==
    \/ now + s.config.cooldown_seconds > I64Max
    \/ now + s.config.cooldown_seconds < -(I64Max + 1)

\* lib.rs:105
count_anomaly(s) == [s EXCEPT !.anomaly_count = WrapU8(@ + 1)]

\* a trip only once the threshold is exceeded
threshold_exceeded(s) == s.anomaly_count > s.config.anomaly_threshold

\* lib.rs:108
threshold_reached(s) == s.anomaly_count >= s.config.anomaly_threshold

\* lib.rs:104-128; s0 is the account as the instruction found it
apply_anomaly(s0, s, now) ==
    IF overflow_checks /\ s.anomaly_count + 1 > U8Max
    THEN Abort(s0, "Anomaly")
    ELSE LET s1 == count_anomaly(s) IN
         IF threshold_reached(s1)
         THEN IF overflow_checks /\ cooldown_overflows(s1, now)
              THEN Abort(s0, "Anomaly")
              ELSE Done(open_circuit(s1, now), "Flagged", "Anomaly")
         ELSE Done(s1, "Flagged", "Anomaly")

\* a Blocked verdict that is not counted
apply_blocked_uncounted(s) == s

\* lib.rs:129-137
apply_blocked(s) == [s EXCEPT !.blocked_transactions = @ + 1]

\* lib.rs:63-139
record_transaction(s0, tx, now) ==
    IF open_in_cooldown(s0, now)
    THEN Done(reject_open(s0), "Blocked", "None")
    ELSE LET s1 == expire_cooldown(s0)
             validation_result == validate_transaction(s1, tx)
             s2 == count_transaction(s1)
         IN  CASE validation_result = "Allowed" ->
                    Done(apply_allowed(s2), "Allowed", "Allowed")
               [] validation_result = "Anomaly" ->
                    apply_anomaly(s0, s2, now)
               [] validation_result = "Blocked" ->
                    Done(apply_blocked(s2), "Blocked", "Blocked")

----------------------------------------------------------------------------
(* The administrative handlers *)

\* an initialize that stamps last_triggered_at with the creation time
initialize_stamps_trigger(authority, agent_wallet, config, now) ==
    [authority |-> authority,
     agent_wallet |-> agent_wallet,
     config |-> config,
     state |-> "Closed",
     anomaly_count |-> 0,
     last_triggered_at |-> now,
     cooldown_ends_at |-> 0,
     total_transactions |-> 0,
     blocked_transactions |-> 0,
     created_at |-> now,
     bump |-> ShieldBump]

\* lib.rs:18-44
initialize(authority, agent_wallet, config, now) ==
    [authority |-> authority,
     agent_wallet |-> agent_wallet,
     config |-> config,
     state |-> "Closed",
     anomaly_count |-> 0,
     last_triggered_at |-> 0,
     cooldown_ends_at |-> 0,
     total_transactions |-> 0,
     blocked_transactions |-> 0,
     created_at |-> now,
     bump |-> ShieldBump]

\* an update that keeps the blocklist of the previous configuration
update_config_keeps_blocklist(s, new_config) ==
    [s EXCEPT !.config =
        [new_config EXCEPT !.blocked_programs = s.config.blocked_programs]]

\* lib.rs:47-60
update_config(s, new_config) == [s EXCEPT !.config = new_config]

\* lib.rs:142-166
trigger_circuit_breaker(s, now) ==
    IF overflow_checks /\ cooldown_overflows(s, now)
    THEN Abort(s, "None")
    ELSE Done(open_circuit(s, now), "Ok", "None")

\* a reset that forgets to clear cooldown_ends_at
reset_circuit_breaker_keeps_cooldown(s) ==
    [s EXCEPT !.state = "Closed", !.anomaly_count = 0]

\* lib.rs:169-182
reset_circuit_breaker(s) ==
    [s EXCEPT !.state = "Closed", !.anomaly_count = 0, !.cooldown_ends_at = 0]

----------------------------------------------------------------------------
(* Account constraints *)

\* Account<Shield>: the PDA holds an initialized Shield
loaded(s) == s # NoShield

\* the account constraint without has_one
has_one_authority_unchecked(s, signer) == loaded(s)

\* has_one = authority (lib.rs:377, 403, 416, 429)
has_one_authority(s, signer) == loaded(s) /\ s.authority = signer

Called(op, signer, now, tx, config, verdict, result) ==
    [op |-> op, signer |-> signer, now |-> now, tx |-> tx, config |-> config,
     verdict |-> verdict, result |-> result]

----------------------------------------------------------------------------
(* Instructions *)

Init ==
    /\ overflow_checks \in BOOLEAN
    /\ shield = NoShield
    /\ call = NoCall

\* lib.rs:351-369 then lib.rs:18-44; `init` fails when the account exists
Initialize(signer, config, now) ==
    /\ IF ~loaded(shield)
       THEN /\ shield' = initialize(signer, AgentWallet, config, now)
            /\ call' = Called("initialize", signer, now, NoTx, config, "None", "Ok")
       ELSE /\ shield' = shield
            /\ call' = Called("initialize", signer, now, NoTx, config, "None", "Err")
    /\ UNCHANGED overflow_checks

\* lib.rs:371-382 then lib.rs:47-60
UpdateConfig(signer, new_config) ==
    /\ IF has_one_authority(shield, signer)
       THEN /\ shield' = update_config(shield, new_config)
            /\ call' = Called("update_config", signer, 0, NoTx, new_config, "None", "Ok")
       ELSE /\ shield' = shield
            /\ call' = Called("update_config", signer, 0, NoTx, new_config, "None", "Err")
    /\ UNCHANGED overflow_checks

\* lib.rs:384-395 then lib.rs:63-139; any signer may record
RecordTransaction(signer, tx, now) ==
    /\ loaded(shield) =>
          /\ shield.total_transactions < MaxTx
          /\ shield.blocked_transactions < MaxTx
    /\ IF loaded(shield)
       THEN LET r == record_transaction(shield, tx, now) IN
            /\ shield' = r.shield
            /\ call' = Called("record_transaction", signer, now, tx, NoConfig,
                              r.verdict, r.result)
       ELSE /\ shield' = shield
            /\ call' = Called("record_transaction", signer, now, tx, NoConfig,
                              "None", "Err")
    /\ UNCHANGED overflow_checks

\* lib.rs:397-408 then lib.rs:142-166
TriggerCircuitBreaker(signer, now) ==
    /\ IF has_one_authority(shield, signer)
       THEN LET r == trigger_circuit_breaker(shield, now) IN
            /\ shield' = r.shield
            /\ call' = Called("trigger_circuit_breaker", signer, now, NoTx, NoConfig,
                              "None", r.result)
       ELSE /\ shield' = shield
            /\ call' = Called("trigger_circuit_breaker", signer, now, NoTx, NoConfig,
                              "None", "Err")
    /\ UNCHANGED overflow_checks

\* lib.rs:410-421 then lib.rs:169-182
ResetCircuitBreaker(signer) ==
    /\ IF has_one_authority(shield, signer)
       THEN /\ shield' = reset_circuit_breaker(shield)
            /\ call' = Called("reset_circuit_breaker", signer, 0, NoTx, NoConfig,
                              "None", "Ok")
       ELSE /\ shield' = shield
            /\ call' = Called("reset_circuit_breaker", signer, 0, NoTx, NoConfig,
                              "None", "Err")
    /\ UNCHANGED overflow_checks

\* a close without `close = authority`: the handler returns Ok and the account stays
CloseShieldKeepsAccount(signer) ==
    /\ IF has_one_authority(shield, signer)
       THEN /\ shield' = shield
            /\ call' = Called("close_shield", signer, 0, NoTx, NoConfig, "None", "Ok")
       ELSE /\ shield' = shield
            /\ call' = Called("close_shield", signer, 0, NoTx, NoConfig, "None", "Err")
    /\ UNCHANGED overflow_checks

\* lib.rs:423-436 then lib.rs:184-188; `close = authority` removes the account
CloseShield(signer) ==
    /\ IF has_one_authority(shield, signer)
       THEN /\ shield' = NoShield
            /\ call' = Called("close_shield", signer, 0, NoTx, NoConfig, "None", "Ok")
       ELSE /\ shield' = shield
            /\ call' = Called("close_shield", signer, 0, NoTx, NoConfig, "None", "Err")
    /\ UNCHANGED overflow_checks

Next ==
    \/ \E signer \in Authorities, config \in ShieldConfig, now \in Times :
            Initialize(signer, config, now)
    \/ \E signer \in Keys, new_config \in ShieldConfig :
            UpdateConfig(signer, new_config)
    \/ \E signer \in Recorders, tx \in TransactionRecord, now \in Times :
            RecordTransaction(signer, tx, now)
    \/ \E signer \in Keys, now \in Times :
            TriggerCircuitBreaker(signer, now)
    \/ \E signer \in Keys :
            ResetCircuitBreaker(signer)
    \/ \E signer \in Keys :
            CloseShield(signer)

Spec == Init /\ [][Next]_vars

----------------------------------------------------------------------------
(* The program when the authority never reconfigures the record, and when  *)
(* it neither reconfigures nor resets it                                   *)

NextFixedConfig ==
    \/ \E signer \in Authorities, config \in ShieldConfig, now \in Times :
            Initialize(signer, config, now)
    \/ \E signer \in Recorders, tx \in TransactionRecord, now \in Times :
            RecordTransaction(signer, tx, now)
    \/ \E signer \in Keys, now \in Times :
            TriggerCircuitBreaker(signer, now)
    \/ \E signer \in Keys :
            ResetCircuitBreaker(signer)
    \/ \E signer \in Keys :
            CloseShield(signer)

SpecFixedConfig == Init /\ [][NextFixedConfig]_vars

NextUntouched ==
    \/ \E signer \in Authorities, config \in ShieldConfig, now \in Times :
            Initialize(signer, config, now)
    \/ \E signer \in Recorders, tx \in TransactionRecord, now \in Times :
            RecordTransaction(signer, tx, now)
    \/ \E signer \in Keys, now \in Times :
            TriggerCircuitBreaker(signer, now)
    \/ \E signer \in Keys :
            CloseShield(signer)

SpecUntouched == Init /\ [][NextUntouched]_vars

----------------------------------------------------------------------------
(* The policy evaluator on its own: every configuration and transaction of *)
(* EvalConfig x EvalTransaction, applied to a fresh record                 *)

InitEval ==
    /\ overflow_checks \in BOOLEAN
    /\ \E config \in EvalConfig : shield = initialize("k1", AgentWallet, config, 0)
    /\ call = NoCall

\* lib.rs:87, the call of validate_transaction
Evaluate(tx) ==
    /\ loaded(shield)
    /\ call' = Called("validate_transaction", "none", 0, tx, NoConfig,
                      validate_transaction(shield, tx), "None")
    /\ UNCHANGED <<overflow_checks, shield>>

NextEval == \E tx \in EvalTransaction : Evaluate(tx)

SpecEval == InitEval /\ [][NextEval]_vars

----------------------------------------------------------------------------
(* Vocabulary of the properties: the record before and after a step, and   *)
(* the policy of spec section 4.1 stated on sets                           *)

Live == shield # NoShield

Range(vec) == {vec[i] : i \in 1..Len(vec)}

\* the ordered rules of the policy, first match wins
PolicyVerdict(config, tx) ==
    CASE tx.program_id \in Range(config.blocked_programs) -> "Blocked"
      [] /\ tx.program_id \notin Range(config.blocked_programs)
         /\ Range(config.allowed_programs) # {}
         /\ tx.program_id \notin Range(config.allowed_programs) -> "Anomaly"
      [] OTHER -> IF tx.value > config.max_transaction_value THEN "Anomaly"
                  ELSE IF tx.value > config.approval_threshold THEN "Anomaly"
                  ELSE "Allowed"

\* the step is a record_transaction call on an existing record
RecordStep == Live /\ Live' /\ call'.op = "record_transaction"

\* ... that found the circuit Open with the cooldown still running
RejectedStep ==
    RecordStep /\ shield.state = "Open" /\ call'.now < shield.cooldown_ends_at

\* ... that went on to evaluate the policy
EvaluatedStep == RecordStep /\ ~RejectedStep

----------------------------------------------------------------------------
(* C1: total_transactions >= blocked_transactions in every reachable state *)
(* of a record.                                                            *)
C1_TotalAtLeastBlocked ==
    Live => shield.total_transactions >= shield.blocked_transactions

(* C1, amended: every operation other than a record_transaction call       *)
(* rejected by an Open circuit in cooldown preserves                       *)
(* total_transactions >= blocked_transactions; such a rejection raises     *)
(* blocked_transactions alone.                                             *)
C1_TotalAtLeastBlockedUnlessRejected ==
    [][ /\ (Live /\ Live' /\ ~RejectedStep
             /\ shield.total_transactions >= shield.blocked_transactions)
            => shield'.total_transactions >= shield'.blocked_transactions
        /\ RejectedStep
            => /\ shield'.total_transactions = shield.total_transactions
               /\ shield'.blocked_transactions = shield.blocked_transactions + 1
      ]_vars

\* a Blocked verdict has been counted in both counters
C1_Witness ==
    /\ Live
    /\ call.op = "record_transaction"
    /\ call.result = "Blocked"
    /\ shield.state # "Open"
    /\ shield.blocked_transactions >= 1
    /\ shield.total_transactions >= shield.blocked_transactions

----------------------------------------------------------------------------
(* C2: in every reachable state of a record, state = Open implies          *)
(* cooldown_ends_at > last_triggered_at, whatever cooldown_seconds is.     *)
C2_OpenHasCooldownAhead ==
    (Live /\ shield.state = "Open")
        => shield.cooldown_ends_at > shield.last_triggered_at

----------------------------------------------------------------------------
(* C3: record_transaction on an existing record never fails: every call    *)
(* returns Allowed, Flagged or Blocked.                                    *)
C3_RecordNeverRejects ==
    (Live /\ call.op = "record_transaction") => call.result \in TransactionResult

----------------------------------------------------------------------------
(* C4: an Anomaly verdict on a Closed or HalfOpen record raises            *)
(* anomaly_count by exactly 1; when the new count reaches the threshold    *)
(* the record ends Open with last_triggered_at = now and                   *)
(* cooldown_ends_at = now + cooldown_seconds, otherwise the circuit state  *)
(* and both timestamps are unchanged.                                      *)
C4_AnomalyCountsAndTrips ==
    [][ (/\ EvaluatedStep
         /\ shield.state \in {"Closed", "HalfOpen"}
         /\ PolicyVerdict(shield.config, call'.tx) = "Anomaly")
        => /\ shield'.anomaly_count = shield.anomaly_count + 1
           /\ IF shield'.anomaly_count >= shield.config.anomaly_threshold
              THEN /\ shield'.state = "Open"
                   /\ shield'.last_triggered_at = call'.now
                   /\ shield'.cooldown_ends_at
                        = call'.now + shield.config.cooldown_seconds
              ELSE /\ shield'.state = shield.state
                   /\ shield'.last_triggered_at = shield.last_triggered_at
                   /\ shield'.cooldown_ends_at = shield.cooldown_ends_at
      ]_vars

----------------------------------------------------------------------------
(* C5: a record_transaction call that finds the circuit Open with          *)
(* now < cooldown_ends_at returns Blocked whatever the transaction, raises *)
(* blocked_transactions by exactly 1 and changes nothing else.             *)
C5_OpenCooldownRejects ==
    [][ RejectedStep
        => /\ call'.result = "Blocked"
           /\ shield' = [shield EXCEPT !.blocked_transactions = @ + 1]
      ]_vars

\* a transaction the policy would allow has been rejected by the open circuit
C5_Witness ==
    /\ Live
    /\ call.op = "record_transaction"
    /\ shield.state = "Open"
    /\ call.now < shield.cooldown_ends_at
    /\ call.result = "Blocked"
    /\ PolicyVerdict(shield.config, call.tx) = "Allowed"
    /\ shield.blocked_transactions > shield.total_transactions

----------------------------------------------------------------------------
(* C6: every record_transaction call that is not rejected by an Open       *)
(* circuit in cooldown raises total_transactions by exactly 1 whatever its *)
(* verdict, a rejected call leaves it alone, and so does every             *)
(* administrative operation; a new record starts at 0.                     *)
C6_TotalCountsEvaluated ==
    [][ /\ (Live /\ Live')
            => shield'.total_transactions
                 = shield.total_transactions + (IF EvaluatedStep THEN 1 ELSE 0)
        /\ (~Live /\ Live') => shield'.total_transactions = 0
      ]_vars

----------------------------------------------------------------------------
(* C7: blocked_transactions rises by exactly 1 on every record_transaction *)
(* call whose verdict is Blocked and on every call rejected by the Open    *)
(* circuit in cooldown, these are exactly the calls that return Blocked,   *)
(* and no other call changes it; a new record starts at 0.                 *)
C7_BlockedCountsBlockedResults ==
    [][ /\ (Live /\ Live')
            => IF \/ RejectedStep
                  \/ /\ EvaluatedStep
                     /\ PolicyVerdict(shield.config, call'.tx) = "Blocked"
               THEN /\ call'.result = "Blocked"
                    /\ shield'.blocked_transactions = shield.blocked_transactions + 1
               ELSE /\ call'.result # "Blocked"
                    /\ shield'.blocked_transactions = shield.blocked_transactions
        /\ (~Live /\ Live') => shield'.blocked_transactions = 0
      ]_vars

\* both kinds of Blocked result have been counted: one by the policy, one by
\* the open circuit
C7_Witness ==
    /\ Live
    /\ call.op = "record_transaction"
    /\ call.result = "Blocked"
    /\ shield.blocked_transactions = 2
    /\ shield.total_transactions = 1
    /\ shield.state = "Open"

----------------------------------------------------------------------------
(* C8: the policy evaluator returns, for every configuration and           *)
(* transaction, the verdict of the first matching rule: blocklisted ->     *)
(* Blocked; allowlist non-empty and destination not in it -> Anomaly;      *)
(* value > max_transaction_value -> Anomaly; value > approval_threshold -> *)
(* Anomaly; otherwise Allowed; and it leaves the record as it was.         *)
C8_PolicyRuleOrder ==
    call.op = "validate_transaction"
        => LET config == shield.config
               tx == call.tx
               blocklisted == \E i \in DOMAIN config.blocked_programs :
                                  config.blocked_programs[i] = tx.program_id
               allowlisted == \E i \in DOMAIN config.allowed_programs :
                                  config.allowed_programs[i] = tx.program_id
               unlisted == config.allowed_programs # <<>> /\ ~allowlisted
               over_max == tx.value > config.max_transaction_value
               over_approval == tx.value > config.approval_threshold
           IN  /\ blocklisted => call.verdict = "Blocked"
               /\ (~blocklisted /\ unlisted) => call.verdict = "Anomaly"
               /\ (~blocklisted /\ ~unlisted /\ over_max) => call.verdict = "Anomaly"
               /\ (~blocklisted /\ ~unlisted /\ ~over_max /\ over_approval)
                      => call.verdict = "Anomaly"
               /\ (~blocklisted /\ ~unlisted /\ ~over_max /\ ~over_approval)
                      => call.verdict = "Allowed"
               /\ shield \in {initialize("k1", AgentWallet, c, 0) : c \in EvalConfig}

\* a destination on both lists is Blocked although its value is within both limits
C8_Witness ==
    /\ call.op = "validate_transaction"
    /\ call.tx.program_id \in Range(shield.config.blocked_programs)
    /\ call.tx.program_id \in Range(shield.config.allowed_programs)
    /\ call.tx.value = shield.config.max_transaction_value
    /\ call.tx.value = shield.config.approval_threshold
    /\ call.verdict = "Blocked"

----------------------------------------------------------------------------
(* C9: in every circuit state, record_transaction on a transaction whose   *)
(* destination is in blocked_programs returns Blocked, raises              *)
(* blocked_transactions by exactly 1, leaves anomaly_count unchanged and   *)
(* never moves the circuit to Open or to Closed.                           *)
C9_BlocklistedAlwaysBlocked ==
    [][ (/\ RecordStep
         /\ call'.tx.program_id \in Range(shield.config.blocked_programs))
        => /\ call'.result = "Blocked"
           /\ shield'.blocked_transactions = shield.blocked_transactions + 1
           /\ shield'.anomaly_count = shield.anomaly_count
           /\ shield'.state \in {"Open", "Closed"} => shield'.state = shield.state
      ]_vars

\* a blocklisted destination that is also allowlisted was Blocked by the
\* policy on a record left HalfOpen with its anomalies still counted
C9_Witness ==
    /\ Live
    /\ call.op = "record_transaction"
    /\ call.tx.program_id \in Range(shield.config.blocked_programs)
    /\ call.tx.program_id \in Range(shield.config.allowed_programs)
    /\ call.result = "Blocked"
    /\ shield.state = "HalfOpen"
    /\ shield.anomaly_count >= 1
    /\ shield.total_transactions >= 2

----------------------------------------------------------------------------
(* C10: anomaly_count decreases only in an administrative reset or a       *)
(* HalfOpen -> Closed transition of record_transaction, and both of those  *)
(* leave it at 0.                                                          *)
ResetStep ==
    Live /\ Live' /\ call'.op = "reset_circuit_breaker" /\ call'.result = "Ok"

HalfOpenToClosedStep ==
    RecordStep /\ shield.state \in {"HalfOpen", "Open"} /\ shield'.state = "Closed"

C10_AnomalyCountResetOnlyTwice ==
    [][ (Live /\ Live')
        => /\ shield'.anomaly_count < shield.anomaly_count
                => (ResetStep \/ HalfOpenToClosedStep)
           /\ (ResetStep \/ HalfOpenToClosedStep) => shield'.anomaly_count = 0
      ]_vars

----------------------------------------------------------------------------
(* C11: cooldown expiry is applied lazily, before evaluation.  A           *)
(* record_transaction call on an Open record with now >= cooldown_ends_at  *)
(* is evaluated as HalfOpen: an Allowed verdict ends Closed with           *)
(* anomaly_count = 0 and result Allowed, a Blocked verdict ends HalfOpen;  *)
(* an Allowed verdict on a HalfOpen record ends the same way.  Only        *)
(* record_transaction moves a record into HalfOpen, and only from Open.    *)
ProbeStep ==
    /\ EvaluatedStep
    /\ \/ shield.state = "HalfOpen"
       \/ shield.state = "Open" /\ call'.now >= shield.cooldown_ends_at

C11_LazyCooldownExpiry ==
    [][ /\ (ProbeStep /\ PolicyVerdict(shield.config, call'.tx) = "Allowed")
            => /\ shield'.state = "Closed"
               /\ shield'.anomaly_count = 0
               /\ call'.result = "Allowed"
        /\ (ProbeStep /\ PolicyVerdict(shield.config, call'.tx) = "Blocked")
            => shield'.state = "HalfOpen"
        /\ (Live' /\ shield'.state = "HalfOpen")
            => /\ Live
               /\ shield.state # "Closed"
               /\ shield.state = "Open" => call'.op = "record_transaction"
      ]_vars

\* an Allowed transaction arrived after the cooldown of a tripped record and
\* closed the circuit (a reset would have cleared cooldown_ends_at)
C11_Witness ==
    /\ Live
    /\ call.op = "record_transaction"
    /\ call.result = "Allowed"
    /\ shield.state = "Closed"
    /\ shield.anomaly_count = 0
    /\ shield.cooldown_ends_at = 1
    /\ call.now >= shield.cooldown_ends_at
    /\ shield.total_transactions >= 3

----------------------------------------------------------------------------
(* C12: trigger_circuit_breaker by the authority, from any state, ends     *)
(* with state = Open, last_triggered_at = now and                          *)
(* cooldown_ends_at = now + cooldown_seconds and changes nothing else;     *)
(* on an Open record it restarts the cooldown from the new now.            *)
C12_TriggerOpens ==
    [][ (/\ Live
         /\ call'.op = "trigger_circuit_breaker"
         /\ call'.signer = shield.authority)
        => shield' = [shield EXCEPT
                        !.state = "Open",
                        !.last_triggered_at = call'.now,
                        !.cooldown_ends_at = call'.now + shield.config.cooldown_seconds]
      ]_vars

----------------------------------------------------------------------------
(* C13: reset_circuit_breaker by the authority, from any state, ends with  *)
(* state = Closed, anomaly_count = 0 and cooldown_ends_at = 0 and changes  *)
(* nothing else; a reset that follows a reset leaves the record as it is.  *)
C13_ResetClosesAndIsIdempotent ==
    [][ (/\ Live
         /\ call'.op = "reset_circuit_breaker"
         /\ call'.signer = shield.authority)
        => /\ call'.result = "Ok"
           /\ shield' = [shield EXCEPT !.state = "Closed",
                                       !.anomaly_count = 0,
                                       !.cooldown_ends_at = 0]
           /\ (call.op = "reset_circuit_breaker" /\ call.result = "Ok")
                => shield' = shield
      ]_vars

\* a tripped record with counted transactions has been reset: the circuit
\* fields are cleared, the trigger time and the counters are kept
C13_Witness ==
    /\ Live
    /\ call.op = "reset_circuit_breaker"
    /\ call.result = "Ok"
    /\ shield.state = "Closed"
    /\ shield.anomaly_count = 0
    /\ shield.cooldown_ends_at = 0
    /\ shield.last_triggered_at = 1
    /\ shield.total_transactions >= 2
    /\ shield.blocked_transactions >= 1

----------------------------------------------------------------------------
(* C14: update_config by the authority replaces the configuration          *)
(* wholesale: afterwards config equals new_config in every field, and      *)
(* state, anomaly_count, both timestamps and both counters are unchanged,  *)
(* also when anomaly_count is already >= the new threshold or the record   *)
(* is Open.                                                                *)
C14_UpdateReplacesConfig ==
    [][ (/\ Live
         /\ call'.op = "update_config"
         /\ call'.signer = shield.authority)
        => /\ call'.result = "Ok"
           /\ shield'.config = call'.config
           /\ shield' = [shield EXCEPT !.config = call'.config]
      ]_vars

\* a record tripped under the zero cooldown of another configuration now
\* holds ConfigA, stays Open and keeps a count that is at ConfigA's threshold
C14_Witness ==
    /\ Live
    /\ call.op = "update_config"
    /\ call.result = "Ok"
    /\ call.config = ConfigA
    /\ shield.config = ConfigA
    /\ shield.state = "Open"
    /\ shield.anomaly_count >= shield.config.anomaly_threshold
    /\ shield.cooldown_ends_at = shield.last_triggered_at

----------------------------------------------------------------------------
(* C15: update_config, trigger_circuit_breaker, reset_circuit_breaker and  *)
(* close_shield called by a signer that is not the record's authority are  *)
(* refused with an error and leave the record, every field of it, as it    *)
(* was; record_transaction is open to a signer that is not the authority.  *)
AdministrativeOps ==
    {"update_config", "trigger_circuit_breaker", "reset_circuit_breaker", "close_shield"}

C15_NonAuthorityRefused ==
    [][ /\ (/\ Live
            /\ call'.op \in AdministrativeOps
            /\ call'.signer # shield.authority)
            => /\ call'.result = "Err"
               /\ shield' = shield
        /\ (/\ RecordStep
            /\ call'.signer # shield.authority
            /\ RejectedStep \/ PolicyVerdict(shield.config, call'.tx) # "Anomaly")
            => call'.result \in TransactionResult
      ]_vars

\* a close attempted by another key on a tripped record in use: refused, the
\* record is still there
C15_Witness ==
    /\ Live
    /\ call.op = "close_shield"
    /\ call.signer # shield.authority
    /\ call.result = "Err"
    /\ shield.state = "Open"
    /\ shield.total_transactions >= 1

----------------------------------------------------------------------------
(* C16: initialize for an agent wallet that has no record creates one with *)
(* state = Closed, anomaly_count, both timestamps and both counters 0 and  *)
(* the given config; initialize for an agent wallet whose record exists    *)
(* fails and leaves that record unchanged, so the wallet never has more    *)
(* than its one record.                                                    *)
C16_InitializeOnce ==
    [][ call'.op = "initialize"
        => IF ~Live
           THEN /\ call'.result = "Ok"
                /\ Live'
                /\ shield'.agent_wallet = AgentWallet
                /\ shield'.authority = call'.signer
                /\ shield'.config = call'.config
                /\ shield'.state = "Closed"
                /\ shield'.anomaly_count = 0
                /\ shield'.last_triggered_at = 0
                /\ shield'.cooldown_ends_at = 0
                /\ shield'.total_transactions = 0
                /\ shield'.blocked_transactions = 0
           ELSE /\ call'.result = "Err"
                /\ shield' = shield
      ]_vars

\* a second initialize, with another configuration and at another time, was
\* refused and the record in use is still the one created first
C16_Witness ==
    /\ Live
    /\ call.op = "initialize"
    /\ call.result = "Err"
    /\ call.config # shield.config
    /\ call.now # shield.created_at
    /\ shield.total_transactions >= 1
    /\ shield.state = "Open"

----------------------------------------------------------------------------
(* C17: close by the authority is terminal: once the record has been       *)
(* closed, every later record_transaction, update_config, trigger, reset   *)
(* or close for that agent wallet is refused and the record never exists   *)
(* again.  Stated on the state a successful close leaves: no step from it  *)
(* brings a record back.                                                   *)
RecordOps ==
    {"record_transaction", "update_config", "trigger_circuit_breaker",
     "reset_circuit_breaker", "close_shield"}

JustClosed == ~Live /\ call.op = "close_shield" /\ call.result = "Ok"

C17_CloseIsTerminal ==
    [][ JustClosed
        => /\ ~Live'
           /\ call'.op \in RecordOps => call'.result = "Err"
      ]_vars

(* C17, amended: close by the authority removes the record; while the      *)
(* agent wallet has no record, every record_transaction, update_config,    *)
(* trigger, reset or close for it is refused with no effect; the only      *)
(* operation that brings a record back is an initialize, which succeeds    *)
(* and creates a fresh record (Closed, counters 0).                        *)
C17_ClosedUntilInitializedAgain ==
    [][ /\ (/\ Live
            /\ call'.op = "close_shield"
            /\ call'.signer = shield.authority)
            => /\ call'.result = "Ok"
               /\ ~Live'
        /\ (~Live /\ call'.op \in RecordOps)
            => /\ call'.result = "Err"
               /\ ~Live'
        /\ (~Live /\ Live')
            => /\ call'.op = "initialize"
               /\ call'.result = "Ok"
               /\ shield'.state = "Closed"
               /\ shield'.anomaly_count = 0
               /\ shield'.total_transactions = 0
               /\ shield'.blocked_transactions = 0
        /\ (~Live /\ call'.op = "initialize") => Live'
      ]_vars

\* the authority has closed the record
C17_Witness ==
    /\ ~Live
    /\ call.op = "close_shield"
    /\ call.result = "Ok"
    /\ call.signer \in Authorities

----------------------------------------------------------------------------
(* C18: for the lifetime of a record, agent_wallet, created_at and         *)
(* authority keep the values initialize wrote: no record_transaction,      *)
(* update_config, trigger or reset changes them.                           *)
C18_IdentityImmutable ==
    [][ (Live /\ Live')
        => /\ shield'.agent_wallet = shield.agent_wallet
           /\ shield'.created_at = shield.created_at
           /\ shield'.authority = shield.authority
      ]_vars

\* a record created at one time has been used and then triggered at another
\* time, and still carries its creation time
C18_Witness ==
    /\ Live
    /\ call.op = "trigger_circuit_breaker"
    /\ call.result = "Ok"
    /\ call.now # shield.created_at
    /\ shield.last_triggered_at # shield.created_at
    /\ shield.total_transactions >= 1
    /\ shield.authority \in Authorities
    /\ shield.agent_wallet = AgentWallet

----------------------------------------------------------------------------
(* C19: HalfOpen is a one-transaction probe.  On a record that was tripped *)
(* by reaching the anomaly threshold and has not been reset or             *)
(* reconfigured since (its anomaly_count is still >= the threshold), the   *)
(* first transaction evaluated after the cooldown decides: Allowed ends    *)
(* Closed, Anomaly ends Open again with last_triggered_at = now and        *)
(* cooldown_ends_at = now + cooldown_seconds, Blocked leaves it HalfOpen.  *)
C19_HalfOpenProbe ==
    [][ (/\ ProbeStep
         /\ shield.anomaly_count >= 1
         /\ shield.anomaly_count >= shield.config.anomaly_threshold)
        => /\ PolicyVerdict(shield.config, call'.tx) = "Allowed"
                => shield'.state = "Closed"
           /\ PolicyVerdict(shield.config, call'.tx) = "Anomaly"
                => /\ shield'.state = "Open"
                   /\ shield'.last_triggered_at = call'.now
                   /\ shield'.cooldown_ends_at
                        = call'.now + shield.config.cooldown_seconds
           /\ PolicyVerdict(shield.config, call'.tx) = "Blocked"
                => shield'.state = "HalfOpen"
      ]_vars

----------------------------------------------------------------------------
(* C20: when a record is initialized with anomaly_threshold >= 1 and       *)
(* update_config is never called, a Closed record always has               *)
(* anomaly_count < anomaly_threshold, for any interleaving of              *)
(* record_transaction, trigger and reset.                                  *)
C20_ClosedBelowThreshold ==
    (/\ Live
     /\ shield.config.anomaly_threshold >= 1
     /\ shield.state = "Closed")
        => shield.anomaly_count < shield.config.anomaly_threshold

\* an anomaly has been counted on a Closed record and left it one short of
\* the threshold
C20_Witness ==
    /\ Live
    /\ call.op = "record_transaction"
    /\ call.result = "Flagged"
    /\ shield.state = "Closed"
    /\ shield.config.anomaly_threshold >= 2
    /\ shield.anomaly_count = shield.config.anomaly_threshold - 1

====
